---- MODULE Spec2Model ----
(***************************************************************************)
(* Model of app.py: the patient dashboard.  One script run ("pass") is     *)
(* load_data -> sidebar widgets -> filter -> metrics -> charts -> table,    *)
(* wrapped in one try/except.  The framework reruns the whole script on    *)
(* every user interaction; only the load_data memo and the widget values   *)
(* survive a rerun.                                                        *)
(*                                                                         *)
(* Text is modelled as sequences of one-character strings.  A cell of the  *)
(* "Length of Stay" column is a record [t, s, n]:                          *)
(*    t = "str"   an object-dtype string, s its characters                  *)
(*    t = "int"   an int64 value n                                          *)
(*    t = "float" a float64 value n (only whole-valued floats arise here)   *)
(*    t = "nan"   a missing value (NaN)                                     *)
(***************************************************************************)
EXTENDS Integers, Sequences, FiniteSets, TLC

\* ---- bounds ----
MaxLen == 5      \* longest raw field drawn in SpecClean
MaxRows == 3     \* most rows of the CSV drawn in Spec
MaxLoads == 3    \* executions of the body of load_data that are followed

\* ---- program constant ----
LongStayThreshold == 10

None == <<>>

Digits == {"0", "1", "2", "3", "4", "5", "6", "7", "8", "9"}

DigitVal(c) ==
  CASE c = "0" -> 0 [] c = "1" -> 1 [] c = "2" -> 2 [] c = "3" -> 3
    [] c = "4" -> 4 [] c = "5" -> 5 [] c = "6" -> 6 [] c = "7" -> 7
    [] c = "8" -> 8 [] c = "9" -> 9

DigitChar(d) ==
  CASE d = 0 -> "0" [] d = 1 -> "1" [] d = 2 -> "2" [] d = 3 -> "3"
    [] d = 4 -> "4" [] d = 5 -> "5" [] d = 6 -> "6" [] d = 7 -> "7"
    [] d = 8 -> "8" [] d = 9 -> "9"

IsDigit(c) == c \in Digits

\* int("...") of a non-empty all-digit text
RECURSIVE ParseDigits(_)
ParseDigits(s) ==
  IF s = <<>> THEN 0
  ELSE 10 * ParseDigits(SubSeq(s, 1, Len(s) - 1)) + DigitVal(s[Len(s)])

\* str(n) of a non-negative integer
RECURSIVE IntToStr(_)
IntToStr(n) ==
  IF n < 10 THEN <<DigitChar(n)>>
  ELSE IntToStr(n \div 10) \o <<DigitChar(n % 10)>>

Cell(t, s, n) == [t |-> t, s |-> s, n |-> n]
NaN == Cell("nan", <<>>, 0)

\* ---- pd.read_csv: dtype inference of the "Length of Stay" column ----
RECURSIVE LStrip(_)
LStrip(s) == IF s # <<>> /\ Head(s) = " " THEN LStrip(Tail(s)) ELSE s

RECURSIVE RStrip(_)
RStrip(s) ==
  IF s # <<>> /\ s[Len(s)] = " " THEN RStrip(SubSeq(s, 1, Len(s) - 1)) ELSE s

\* the digits of a field the parser accepts as a number: blanks around it
\* and one leading sign are skipped
NumberBody(s) ==
  LET t == RStrip(LStrip(s))
  IN IF t # <<>> /\ Head(t) = "+" THEN Tail(t) ELSE t

IsNumericField(s) ==
  LET u == NumberBody(s)
  IN u # <<>> /\ \A i \in 1..Len(u) : IsDigit(u[i])

\* an empty field is a missing value
IsNA(s) == s = <<>>

\* the column as read_csv returns it: int64 when every field is a number,
\* float64 when every field is a number or missing and one is missing,
\* object (the raw text, NaN for missing) otherwise
read_csv(fields) ==
  LET n == Len(fields)
      allnum == \A i \in 1..n : IsNA(fields[i]) \/ IsNumericField(fields[i])
      anyna == \E i \in 1..n : IsNA(fields[i])
  IN [i \in 1..n |->
        IF IsNA(fields[i]) THEN NaN
        ELSE IF allnum
             THEN Cell(IF anyna THEN "float" ELSE "int", <<>>,
                       ParseDigits(NumberBody(fields[i])))
             ELSE Cell("str", fields[i], 0)]

\* ---- the cleaning step of load_data ----
\* .astype(str) of one cell
astype_str(c) ==
  CASE c.t = "str" -> c.s
    [] c.t = "int" -> IntToStr(c.n)
    [] c.t = "float" -> IntToStr(c.n) \o <<".", "0">>
    [] c.t = "nan" -> <<"n", "a", "n">>

\* .str.replace(r'[^0-9]', '', regex=True) of one text
str_replace(s) == SelectSeq(s, IsDigit)

\* pd.to_numeric(..., errors='coerce') of a column of texts: the empty text
\* becomes NaN, and one NaN makes the column float64
to_numeric(texts) ==
  LET n == Len(texts)
      anyna == \E i \in 1..n : texts[i] = <<>>
  IN [i \in 1..n |->
        IF texts[i] = <<>> THEN NaN
        ELSE Cell(IF anyna THEN "float" ELSE "int", <<>>, ParseDigits(texts[i]))]

\* lines 17-22 applied to a column of cells
clean_column(col) ==
  to_numeric([i \in 1..Len(col) |-> str_replace(astype_str(col[i]))])

IsMissing(r) == r.los.t = "nan"
NotMissing(r) == ~IsMissing(r)

\* fault: missing stays are filled with 0 instead of being dropped
dropna_fillzero(rows) ==
  [i \in 1..Len(rows) |->
     IF IsMissing(rows[i]) THEN [rows[i] EXCEPT !.los = Cell("int", <<>>, 0)]
     ELSE rows[i]]

\* df.dropna(subset=['Length of Stay'])
dropna(rows) == SelectSeq(rows, NotMissing)

\* ---- the CSV file ----
Columns == {"Length of Stay", "Age Group", "Type of Admission", "Gender"}

\* load_data: read the file, clean the column, drop the rows left missing.
\* A row keeps its position in the file as its index (id).
load_data(src) ==
  LET n == Len(src.rows)
      col == clean_column(read_csv([i \in 1..n |-> src.rows[i].los]))
  IN dropna([i \in 1..n |-> [id |-> i, los |-> col[i], age |-> src.rows[i].age]])

\* load_data raises: the file is missing, or df['Length of Stay'] is a KeyError
load_raises(src) == ~src.exists \/ "Length of Stay" \notin src.cols

\* fault: the result of the body is never memoized
cache_store_miss(d) == [hit |-> FALSE, df |-> d]

\* @st.cache_data: what is stored after the body has returned d
cache_store(d) == [hit |-> TRUE, df |-> d]

\* ---- the script, after load_data ----
RECURSIVE SeqSum(_)
SeqSum(s) == IF s = <<>> THEN 0 ELSE Head(s) + SeqSum(Tail(s))

Stays(rows) == [i \in 1..Len(rows) |-> rows[i].los.n]

series_min(rows) == CHOOSE v \in {rows[i].los.n : i \in 1..Len(rows)} :
                      \A j \in 1..Len(rows) : v <= rows[j].los.n
\* fault: the slider's upper end is taken from the least stay
series_max_least(rows) == series_min(rows)

series_max(rows) == CHOOSE v \in {rows[i].los.n : i \in 1..Len(rows)} :
                      \A j \in 1..Len(rows) : v >= rows[j].los.n

\* df["Age Group"].unique()
unique_ages(rows) == {rows[i].age : i \in 1..Len(rows)}

\* fault: the range is open at both ends
between_exclusive(c, lo, hi) == c.t # "nan" /\ lo < c.n /\ c.n < hi

\* Series.between(lo, hi): inclusive on both sides, False for NaN
between(c, lo, hi) == c.t # "nan" /\ lo <= c.n /\ c.n <= hi

\* lines 47-50: the boolean mask applied to df
filter_rows(rows, range, ages) ==
  LET keep(r) == r.age \in ages /\ between(r.los, range[1], range[2])
  IN SelectSeq(rows, keep)

\* fault: the mean of no rows is reported as 0
mean_zero_on_empty(rows) ==
  [nan |-> FALSE, num |-> SeqSum(Stays(rows)),
   den |-> IF rows = <<>> THEN 1 ELSE Len(rows)]

\* line 59: Series.mean(); NaN on no rows, else sum / count kept as a fraction
mean(rows) ==
  IF rows = <<>> THEN [nan |-> TRUE, num |-> 0, den |-> 1]
  ELSE [nan |-> FALSE, num |-> SeqSum(Stays(rows)), den |-> Len(rows)]

\* fault: a stay of exactly 10 days counts as long
IsLongStay_inclusive(r) == r.los.t # "nan" /\ r.los.n >= LongStayThreshold

\* line 62: len(filtered_df[filtered_df['Length of Stay'] > 10])
IsLongStay(r) == r.los.t # "nan" /\ r.los.n > LongStayThreshold
long_stay_count(rows) == Len(SelectSeq(rows, IsLongStay))

\* fault: numerator and denominator swapped
percentage_swapped(view, rows) == [num |-> Len(rows) * 100, den |-> Len(view)]

\* line 68: (len(filtered_df) / len(df)) * 100, kept as a fraction
percentage(view, rows) == [num |-> Len(view) * 100, den |-> Len(rows)]

VARIABLES
  source,       \* the CSV file on disk (never changes)
  cache,        \* the memo of load_data
  loads,        \* executions of the body of load_data so far
  stay_sel,     \* the slider's value in the session, None until the user moves it
  age_sel,      \* the multiselect's value in the session
  pc,           \* position of the current script run
  df, min_stay, max_stay, stay_range, age_groups, filtered_df, metrics,
  widgets,      \* widgets rendered by this run
  errors,       \* st.error messages shown by this run
  trace,        \* steps this run has entered, in order
  prev,         \* what the previous run filtered, when the user changed no filter
  recleaned     \* the cleaning step applied once more to the cleaned column

vars == <<source, cache, loads, stay_sel, age_sel, pc, df, min_stay, max_stay,
          stay_range, age_groups, filtered_df, metrics, widgets, errors, trace,
          prev, recleaned>>

script == <<df, min_stay, max_stay, stay_range, age_groups, filtered_df, metrics>>
session == <<source, cache, loads, stay_sel, age_sel>>

NoMetrics == [avg |-> [nan |-> TRUE, num |-> 0, den |-> 1], long_stays |-> 0,
              total |-> 0, pct |-> [num |-> 0, den |-> 1]]

\* a fresh run of the script: no script variable is bound yet
FreshRun ==
  /\ pc = "start"
  /\ df = <<>> /\ min_stay = 0 /\ max_stay = 0
  /\ stay_range = None /\ age_groups = {} /\ filtered_df = <<>>
  /\ metrics = NoMetrics /\ widgets = {} /\ errors = 0 /\ trace = <<>>

\* ---- the input spaces ----
Ages == {"A", "B"}

\* raw "Length of Stay" fields of the dashboard runs
Fields == { <<"9", "+">>, <<"1", "0">>, <<"1", "1", " ", "+">>,
            <<"a", "b", "c">>, <<>> }

RowsUpTo(n) == UNION {[1..k -> [los : Fields, age : Ages]] : k \in 0..n}

File(cols, rows) == [exists |-> TRUE, cols |-> cols, rows |-> rows]

Sources ==
  {File(Columns, rows) : rows \in RowsUpTo(MaxRows)}
  \cup {File(Columns \ {c}, rows) : c \in Columns, rows \in RowsUpTo(1)}
  \cup {[exists |-> FALSE, cols |-> {}, rows |-> <<>>]}

Init ==
  /\ source \in Sources
  /\ cache = [hit |-> FALSE, df |-> <<>>]
  /\ loads = 0
  /\ stay_sel = None
  /\ age_sel = [set |-> FALSE, val |-> {}]
  /\ prev = None
  /\ recleaned = None
  /\ FreshRun

\* fault: the failure is swallowed without a message
Fail_silent ==
  /\ errors' = errors
  /\ pc' = "failed"

\* ---- lines 112-113: the except clause ----
Fail ==
  /\ errors' = errors + 1
  /\ pc' = "failed"

\* ---- line 30: df = load_data() ----
Load ==
  /\ pc = "start"
  /\ trace' = Append(trace, "load")
  /\ IF cache.hit
     THEN /\ df' = cache.df
          /\ pc' = "loaded"
          /\ UNCHANGED <<cache, loads, errors>>
     ELSE /\ loads' = loads + 1
          /\ IF load_raises(source)
             THEN /\ Fail
                  /\ UNCHANGED <<cache, df>>
             ELSE /\ cache' = cache_store(load_data(source))
                  /\ df' = cache'.df
                  /\ pc' = "loaded"
                  /\ UNCHANGED errors
  /\ UNCHANGED <<source, stay_sel, age_sel, min_stay, max_stay, stay_range,
                 age_groups, filtered_df, metrics, widgets, prev, recleaned>>

\* ---- lines 33-44: the sidebar ----
\* int(NaN) raises on an empty df; df["Age Group"] raises when the column is
\* missing, after the slider has been rendered
Sidebar ==
  /\ pc = "loaded"
  /\ trace' = Append(trace, "sidebar")
  /\ IF df = <<>>
     THEN /\ Fail
          /\ UNCHANGED <<min_stay, max_stay, stay_range, age_groups, widgets>>
     ELSE /\ min_stay' = series_min(df)
          /\ max_stay' = series_max(df)
          /\ stay_range' = IF stay_sel = None THEN <<min_stay', max_stay'>>
                           ELSE stay_sel
          /\ IF "Age Group" \notin source.cols
             THEN /\ Fail
                  /\ widgets' = {"slider"}
                  /\ UNCHANGED age_groups
             ELSE /\ age_groups' = IF age_sel.set THEN age_sel.val
                                   ELSE unique_ages(df)
                  /\ widgets' = {"slider", "multiselect"}
                  /\ pc' = "sidebar"
                  /\ UNCHANGED errors
  /\ UNCHANGED <<session, df, filtered_df, metrics, prev, recleaned>>

\* ---- lines 47-50: filtered_df ----
Filter ==
  /\ pc = "sidebar"
  /\ trace' = Append(trace, "filter")
  /\ filtered_df' = filter_rows(df, stay_range, age_groups)
  /\ pc' = "filtered"
  /\ UNCHANGED <<session, df, min_stay, max_stay, stay_range, age_groups,
                 metrics, widgets, errors, prev, recleaned>>

\* ---- lines 57-69: the four metrics ----
Metrics ==
  /\ pc = "filtered"
  /\ trace' = Append(trace, "metrics")
  /\ metrics' = [avg |-> mean(filtered_df),
                 long_stays |-> long_stay_count(filtered_df),
                 total |-> Len(filtered_df),
                 pct |-> percentage(filtered_df, df)]
  /\ pc' = "metrics"
  /\ UNCHANGED <<session, df, min_stay, max_stay, stay_range, age_groups,
                 filtered_df, widgets, errors, prev, recleaned>>

\* ---- lines 74-100: the charts; groupby("Type of Admission") ----
Charts ==
  /\ pc = "metrics"
  /\ trace' = Append(trace, "charts")
  /\ IF "Type of Admission" \notin source.cols
     THEN Fail
     ELSE pc' = "charts" /\ UNCHANGED errors
  /\ UNCHANGED <<session, script, widgets, prev, recleaned>>

\* ---- lines 103-110: the table; the default columns include "Gender" ----
Table ==
  /\ pc = "charts"
  /\ trace' = Append(trace, "table")
  /\ IF "Gender" \notin source.cols
     THEN Fail
     ELSE pc' = "done" /\ UNCHANGED errors
  /\ UNCHANGED <<session, script, widgets, prev, recleaned>>

\* ---- user interactions: each one reruns the script from the top ----
CanRerun == pc \in {"done", "failed"} /\ (cache.hit \/ loads < MaxLoads)

Restart ==
  /\ pc' = "start"
  /\ df' = <<>> /\ min_stay' = 0 /\ max_stay' = 0
  /\ stay_range' = None /\ age_groups' = {} /\ filtered_df' = <<>>
  /\ metrics' = NoMetrics /\ widgets' = {} /\ errors' = 0 /\ trace' = <<>>

\* an interaction that changes no filter (the column selector, a plain rerun)
Rerun ==
  /\ CanRerun
  /\ Restart
  /\ prev' = IF pc = "done"
             THEN [range |-> stay_range, ages |-> age_groups, view |-> filtered_df]
             ELSE None
  /\ UNCHANGED <<session, recleaned>>

\* the user moves the range slider
MoveSlider ==
  /\ CanRerun
  /\ "slider" \in widgets
  /\ \E lo \in min_stay..max_stay : \E hi \in lo..max_stay :
       stay_sel' = <<lo, hi>>
  /\ Restart
  /\ prev' = None
  /\ UNCHANGED <<source, cache, loads, age_sel, recleaned>>

\* the user picks age groups
PickAges ==
  /\ CanRerun
  /\ "multiselect" \in widgets
  /\ \E S \in SUBSET unique_ages(df) : age_sel' = [set |-> TRUE, val |-> S]
  /\ Restart
  /\ prev' = None
  /\ UNCHANGED <<source, cache, loads, stay_sel, recleaned>>

Next ==
  \/ Load \/ Sidebar \/ Filter \/ Metrics \/ Charts \/ Table
  \/ Rerun \/ MoveSlider \/ PickAges

Spec == Init /\ [][Next]_vars

\* ---- the cleaning step on its own ----
\* the cleaning step applied to the column load_data returned
Reclean ==
  /\ pc = "loaded"
  /\ df # <<>>
  /\ recleaned = None
  /\ recleaned' = clean_column([i \in 1..Len(df) |-> df[i].los])
  /\ UNCHANGED <<session, pc, script, widgets, errors, trace, prev>>

CleanAlphabet == {"0", "1", "2", "5", "+", " ", "a"}

Texts(n) == UNION {[1..k -> CleanAlphabet] : k \in 0..n}

\* what the other rows of the column can be: missing, a number, a word
OtherFields == { <<>>, <<"7">>, <<"x">> }

CleanSources ==
  {File(Columns, <<[los |-> f, age |-> "A"], [los |-> g, age |-> "B"]>>) :
     f \in Texts(MaxLen), g \in OtherFields}

InitClean ==
  /\ source \in CleanSources
  /\ cache = [hit |-> FALSE, df |-> <<>>]
  /\ loads = 0
  /\ stay_sel = None
  /\ age_sel = [set |-> FALSE, val |-> {}]
  /\ prev = None
  /\ recleaned = None
  /\ FreshRun

NextClean == Load \/ Reclean

SpecClean == InitClean /\ [][NextClean]_vars

\* ---- properties ----
AfterLoad == pc \in {"loaded", "sidebar", "filtered", "metrics", "charts", "done"}
AfterFilter == pc \in {"filtered", "metrics", "charts", "done"}
AfterMetrics == pc \in {"metrics", "charts", "done"}

RowSet(rows) == {rows[i] : i \in 1..Len(rows)}
InSourceOrder(rows) ==
  \A i, j \in 1..Len(rows) : i < j => rows[i].id < rows[j].id

\* C1: the filtered view holds exactly the records of the Dataset whose age
\* group is accepted and whose stay lies in [lo, hi], both ends included, in
\* the Dataset's order; a run with the same Dataset and criteria as the run
\* before it shows the same view.
C1_FilterExact ==
  AfterFilter =>
    /\ RowSet(filtered_df) =
         {r \in RowSet(df) : /\ r.age \in age_groups
                             /\ stay_range[1] <= r.los.n
                             /\ r.los.n <= stay_range[2]}
    /\ InSourceOrder(filtered_df)
    /\ (prev # None /\ prev.range = stay_range /\ prev.ages = age_groups
          => filtered_df = prev.view)

C1_Witness ==
  /\ pc = "filtered"
  /\ prev # None
  /\ Len(filtered_df) = 2
  /\ Len(df) = 3
  /\ filtered_df[1].los.n = stay_range[1]
  /\ filtered_df[2].los.n = stay_range[2]
  /\ stay_range[1] < stay_range[2]

\* the text cleaning sees for raw row i, digits only
Stripped(i) ==
  str_replace(astype_str(
    read_csv([k \in 1..Len(source.rows) |-> source.rows[k].los])[i]))

\* C2: every record of the Dataset and of the filtered view has a numeric,
\* non-missing length of stay; a raw row whose field is empty once stripped
\* is absent from the Dataset, not kept with a value such as 0.
C2_NoMissingStay ==
  AfterLoad =>
    /\ \A r \in RowSet(df) \cup RowSet(filtered_df) :
         /\ r.los.t \in {"int", "float"}
         /\ r.id \in 1..Len(source.rows)
         /\ Stripped(r.id) # <<>>
    /\ \A i \in 1..Len(source.rows) :
         Stripped(i) = <<>> => ~\E r \in RowSet(df) : r.id = i

C2_Witness ==
  /\ pc = "filtered"
  /\ Len(source.rows) = 3
  /\ source.rows[1].los = <<"a", "b", "c">>
  /\ source.rows[2].los = <<>>
  /\ Len(df) = 1
  /\ filtered_df = df

\* a field of digits followed by or interleaved with blanks and "+"
DigitsWithSuffix(f) ==
  /\ f # <<>>
  /\ IsDigit(Head(f))
  /\ \A i \in 1..Len(f) : IsDigit(f[i]) \/ f[i] \in {"+", " "}
  /\ \E i \in 1..Len(f) : ~IsDigit(f[i])

\* C3: a raw field of digits followed by or interleaved with blanks and "+"
\* is cleaned to the number its digits denote ("5+" to 5, "120 +" to 120).
C3_SuffixStripped ==
  AfterLoad =>
    \A i \in 1..Len(source.rows) :
      DigitsWithSuffix(source.rows[i].los) =>
        \E r \in RowSet(df) :
          r.id = i /\ r.los.n = ParseDigits(str_replace(source.rows[i].los))

\* C4: cleaning a cleaned value once more gives the same number.
C4_Idempotent ==
  recleaned # None =>
    /\ Len(recleaned) = Len(df)
    /\ \A i \in 1..Len(df) :
         recleaned[i].t # "nan" /\ recleaned[i].n = df[i].los.n

\* C5: the filtered view is a subset of the Dataset, and with the range
\* [min stay, max stay] and every age group of the Dataset it is the Dataset.
C5_SubsetAndFull ==
  AfterFilter =>
    /\ RowSet(filtered_df) \subseteq RowSet(df)
    /\ Len(filtered_df) <= Len(df)
    /\ (/\ \A r \in RowSet(df) : stay_range[1] <= r.los.n /\ r.los.n <= stay_range[2]
        /\ \E r \in RowSet(df) : r.los.n = stay_range[1]
        /\ \E r \in RowSet(df) : r.los.n = stay_range[2]
        /\ age_groups = {r.age : r \in RowSet(df)}
        => filtered_df = df)
    /\ (stay_sel = None /\ ~age_sel.set => filtered_df = df)

C5_Witness ==
  /\ pc = "filtered"
  /\ stay_sel = None
  /\ ~age_sel.set
  /\ Len(df) = 3
  /\ stay_range[1] < stay_range[2]
  /\ Cardinality(age_groups) = 2
  /\ filtered_df = df

\* C6: the percentage metric is 100 * (records in the view) / (records in
\* the Dataset) and lies in [0, 100].
C6_Percentage ==
  AfterMetrics =>
    /\ metrics.pct.den = Len(df)
    /\ metrics.pct.den > 0
    /\ metrics.pct.num = 100 * Len(filtered_df)
    /\ 0 <= metrics.pct.num
    /\ metrics.pct.num <= 100 * metrics.pct.den

C6_Witness ==
  /\ pc = "metrics"
  /\ Len(df) = 3
  /\ Len(filtered_df) = 1
  /\ metrics.pct = [num |-> 100, den |-> 3]

StaySet(rows) == {rows[i].los.n : i \in 1..Len(rows)}

\* C7: the mean of a non-empty view is the sum of its stays over their count
\* and lies between the least and the greatest of them; the mean of an empty
\* view is not a number.
C7_Mean ==
  AfterMetrics =>
    IF Len(filtered_df) = 0
    THEN metrics.avg.nan
    ELSE /\ ~metrics.avg.nan
         /\ metrics.avg.den = Len(filtered_df)
         /\ metrics.avg.num = SeqSum([i \in 1..Len(filtered_df) |-> filtered_df[i].los.n])
         /\ \A v \in StaySet(filtered_df) :
              (\A w \in StaySet(filtered_df) : v <= w)
                => v * metrics.avg.den <= metrics.avg.num
         /\ \A v \in StaySet(filtered_df) :
              (\A w \in StaySet(filtered_df) : v >= w)
                => metrics.avg.num <= v * metrics.avg.den

C7_Witness ==
  /\ pc = "metrics"
  /\ StaySet(filtered_df) = {9, 10, 11}
  /\ metrics.avg = [nan |-> FALSE, num |-> 30, den |-> 3]

C7_WitnessEmpty ==
  /\ pc = "metrics"
  /\ df # <<>>
  /\ filtered_df = <<>>
  /\ metrics.avg.nan

\* C8 as stated: the body of load_data executes at most once.
C8_AtMostOneLoad == loads <= 1

\* C8: the body of load_data returns at most once: from then on the memo and
\* the count of executions never change, every run works on the memoized
\* Dataset, and every run past the sidebar filters and aggregates anew.
C8_LoadedOnce ==
  /\ [](AfterLoad => cache.hit /\ df = cache.df /\ df = load_data(source))
  /\ [](AfterFilter => \E i \in 1..Len(trace) : trace[i] = "filter")
  /\ [](AfterMetrics => \E i \in 1..Len(trace) : trace[i] = "metrics")
  /\ [][cache.hit => cache' = cache /\ loads' = loads]_vars

C8_Witness ==
  /\ pc = "metrics"
  /\ prev # None
  /\ stay_sel # None
  /\ age_sel.set
  /\ loads = 1
  /\ Len(df) = 3

C8_WitnessReload ==
  /\ pc = "failed"
  /\ ~cache.hit
  /\ loads = 2

Steps == <<"load", "sidebar", "filter", "metrics", "charts", "table">>

\* C9: a failure in any step ends the run with exactly one error message;
\* no step runs twice in a run and none runs after the failure.
C9_SingleError ==
  /\ [](errors <= 1)
  /\ [](pc = "failed" <=> errors = 1)
  /\ [](Len(trace) <= Len(Steps) /\ trace = SubSeq(Steps, 1, Len(trace)))
  /\ [][pc = "failed" => pc' = "start" /\ errors' = 0 /\ trace' = <<>>]_vars

C9_Witness ==
  /\ pc = "failed"
  /\ errors = 1
  /\ trace = <<"load", "sidebar", "filter", "metrics", "charts">>

C9_WitnessLoad ==
  /\ pc = "failed"
  /\ errors = 1
  /\ trace = <<"load">>
  /\ ~source.exists

\* C10: the long-stay metric counts the records of the view whose stay is
\* strictly above 10, the total-records metric counts the view, and
\* long stays <= total records <= size of the Dataset.
C10_LongStays ==
  AfterMetrics =>
    /\ metrics.long_stays =
         Cardinality({i \in 1..Len(filtered_df) : filtered_df[i].los.n > 10})
    /\ metrics.total = Len(filtered_df)
    /\ metrics.long_stays <= metrics.total
    /\ metrics.total <= Len(df)

C10_Witness ==
  /\ pc = "metrics"
  /\ Len(df) = 3
  /\ Len(filtered_df) = 2
  /\ StaySet(filtered_df) = {10, 11}
  /\ metrics.long_stays = 1
  /\ metrics.total = 2

====
